---- MODULE Spec2Model ----
(***************************************************************************)
(* A model of the Akari router (src/akari/router.py) and of the data       *)
(* classes it works on (src/akari/data.py).                                *)
(*                                                                         *)
(* One router instance, one caller-held sequence object ("data"), a small  *)
(* set of calling threads, and modules whose operations are arbitrary code *)
(* behind the _AkariModule interface: a module operation may mutate the    *)
(* sequence object it receives and returns a record, a sequence, something *)
(* else, or raises.                                                        *)
(*                                                                         *)
(* Three modules are modelled beside the router, each under a              *)
(* specification of its own in which the rest stands still: the streaming  *)
(* speech-to-text session with its processing threads (SpecSTT, and        *)
(* SpecSTTLive with fairness), the voice activity detection (SpecVAD) and  *)
(* the capture loop of the microphone (SpecMic).                           *)
(***************************************************************************)
EXTENDS Integers, Sequences, FiniteSets, TLC

\* Python's None, for a name, a time and a provenance record
None == "None"
NoTime == 0 - 1
NoModule ==
    [moduleType |-> None, params |-> None, streaming |-> FALSE,
     callback |-> None, startTime |-> NoTime, endTime |-> NoTime]
NoRecord == [main |-> None, module |-> NoModule]

\* ---- bounds of the model ------------------------------------------------
\* perf_counter readings are 0..MaxTime
MaxTime == 3
\* the caller's sequence is only grown while it has fewer than MaxLen records
MaxLen == 2

Threads == {"t1", "t2"}
ModuleTypes == {"A", "B"}
Instances == {"i1", "i2"}
Mains == {"x", "y"}
Params == {"p1"}
Callbacks == {"B"}
ProvTimes == {1}

\* ---- src/akari/data.py ---------------------------------------------------

\* the methods class _AkariDataSet defines
DataSetMethods == {"setModule"}

\* the fields of dataclass _AkariDataModuleType
ModuleTypeFields ==
    {"moduleType", "params", "streaming", "callback", "startTime", "endTime"}

\* _AkariDataModuleType(...) built positionally
AkariDataModuleType(moduleType, params, streaming, callback, startTime, endTime) ==
    [moduleType |-> moduleType, params |-> params, streaming |-> streaming,
     callback |-> callback, startTime |-> startTime, endTime |-> endTime]

\* _AkariDataSet(): module is None until setModule is called
AkariDataSet(main) == [main |-> main, module |-> NoModule]

setModule(dataset, module) == [dataset EXCEPT !.module = module]

\* _AkariData.add
add(datasets, dataset) == Append(datasets, dataset)

\* _AkariData.last (callers check for the empty list first)
last(datasets) == datasets[Len(datasets)]

\* ---- modules (src/akari/module.py) ---------------------------------------

\* provenance a module (or the caller) may have put on a record itself
OwnProvenance ==
    {AkariDataModuleType("B", "p1", FALSE, None, e, e) : e \in ProvTimes}

\* the records a module operation or the caller builds: fresh, or already
\* carrying provenance
ModuleRecords ==
    {AkariDataSet("x")} \cup {setModule(AkariDataSet("x"), p) : p \in OwnProvenance}

Mutations == {"none", "add", "remove", "change"}

\* what a module operation does to the sequence object it was handed
Mutate(datasets, mut) ==
    CASE mut = "add" -> add(datasets, AkariDataSet("y"))
      [] mut = "remove" /\ Len(datasets) > 0 -> SubSeq(datasets, 1, Len(datasets) - 1)
      [] mut = "change" /\ Len(datasets) > 0 ->
            [datasets EXCEPT ![Len(datasets)].main = IF @ = "x" THEN "y" ELSE "x"]
      [] OTHER -> datasets

\* what a module operation hands back: a record, the sequence it received,
\* a fresh empty sequence, a value of another type, or an exception
ModuleResults ==
    {[type |-> "AkariDataSet", rec |-> r, ref |-> None] : r \in ModuleRecords}
        \cup {[type |-> "AkariData", rec |-> NoRecord, ref |-> f] : f \in {"input", "new"}}
        \cup {[type |-> "other", rec |-> NoRecord, ref |-> None],
              [type |-> "raise", rec |-> NoRecord, ref |-> None]}

\* a module operation: what it does to its input, what it returns, and the
\* perf_counter ticks it takes (a call never returns within the same reading)
ModuleBehaviours == [mut : Mutations, result : ModuleResults, dt : {1}]

\* ---- state ---------------------------------------------------------------
VARIABLES
    modules,                    \* _AkariRouter._modules
    thread_last_perf_counter,   \* _AkariRouter._thread_last_perf_counter
    options_duration,           \* _AkariRouter._options.duration
    clock,                      \* time.perf_counter()
    data,                       \* the caller's _AkariData object (its datasets)
    outer,                      \* the streaming call_module whose module operation is
                                \* running and calls the router itself
    call                        \* the router call the caller is in: its arguments,
                                \* the state it started in, and what it did

\* the streaming speech-to-text module instance (src/modules/google/stt.py)
VARIABLES
    is_streaming_active,        \* _is_streaming_active
    audio_queue,                \* _audio_queue: chunks and stop sentinels, oldest first
    processing_thread,          \* _processing_thread: a worker, or NoThread for None
    lock,                       \* _lock is held by a stream_call waiting in join()
    worker,                     \* the processing threads ever started, each one's position
    result_delta,               \* _result_delta
    result_final,               \* _result_final
    downstream_callback,        \* _downstream_callback_module_type, _callback_when_final
    worker_log,                 \* what the step just taken by a processing thread did
    stt                         \* the stream_call or close() the caller is in

\* the voice activity detection module instance (src/modules/webrtcvad/vad.py)
VARIABLES
    last_speech_time,           \* _last_speech_time, in milliseconds
    callbacked,                 \* _callbacked
    audio_buffer,               \* _audio_buffer: the chunks concatenated, oldest first
    vad_clock,                  \* time.time(), in milliseconds
    vad                         \* the last stream_call: its arguments and what it did

\* the microphone capture loop (src/modules/audio/mic.py)
VARIABLES
    frames,                     \* the retained closed chunks, oldest first
    frame,                      \* the chunk being accumulated: the reads in it
    frame_time,                 \* time of the last chunk boundary
    mic_clock,                  \* time.time(), in milliseconds
    mic_thread,                 \* the dispatch threads alive; self._thread is the newest
    mic_log,                    \* the chunks closed and the chunks handed last to the callback
    mic                         \* the position in the loop, and the params of call()

\* the serial module (src/modules/serial.py) and the text-to-speech module
\* (src/modules/google/tts.py): both keep no state between two calls
VARIABLES
    serial,                     \* the last call() of the serial module and what it did
    tts                         \* the last call() of the text-to-speech module

router_vars == <<modules, thread_last_perf_counter, options_duration, clock, data, outer, call>>
stt_vars == <<is_streaming_active, audio_queue, processing_thread, lock, worker,
              result_delta, result_final, downstream_callback, worker_log, stt>>
vad_vars == <<last_speech_time, callbacked, audio_buffer, vad_clock, vad>>
mic_vars == <<frames, frame, frame_time, mic_clock, mic_thread, mic_log, mic>>

serial_vars == <<serial>>
tts_vars == <<tts>>

vars == <<router_vars, stt_vars, vad_vars, mic_vars, serial_vars, tts_vars>>

\* ---- src/modules/google/stt.py: the module after __init__ ----------------

\* at most MaxWorkers processing threads are ever started
MaxWorkers == 2
\* a chunk is only pushed while fewer than MaxQueue items wait in the queue
MaxQueue == 1
\* a transcript is only appended while _result_delta is shorter than MaxDelta
MaxDelta == 1

Workers == 1 .. MaxWorkers
\* self._processing_thread = None
NoThread == 0
\* the audio chunks a record can carry; NoChunk is a missing or empty one
Chunks == {"c1"}
NoChunk == ""
Transcripts == {"hello"}

\* AkariDataSet() as stream_call returns it: a record with no field set
EmptyDataSet == [type |-> "AkariDataSet", text |-> None, stream |-> <<>>, bool |-> None]
NoResult == [type |-> None, text |-> None, stream |-> <<>>, bool |-> None]

\* held: the step of the call that led here made its writes holding _lock
NoSttCall ==
    [pc |-> "idle", op |-> "none", end_stream_flag |-> FALSE, audio_chunk |-> NoChunk,
     active_before |-> FALSE, queue_before |-> <<>>, thread_before |-> NoThread,
     alive_before |-> {}, started |-> NoThread, join |-> "n/a",
     result |-> NoResult, exc |-> None, held |-> FALSE]

\* queue.Queue(): no maxsize is given, and maxsize <= 0 means that put never
\* blocks and never fails
maxsize == 0

\* no step of a processing thread has just been taken; owner is the thread
\* of the session whose chunks are in the queue
NoWorkerLog == [w |-> NoThread, event |-> "none", owner |-> NoThread]

stt_init ==
    /\ is_streaming_active = FALSE
    /\ audio_queue = <<>>
    /\ processing_thread = NoThread
    /\ lock = FALSE
    /\ worker = [w \in Workers |-> [pc |-> "unborn", exc |-> FALSE]]
    /\ result_delta = <<>>
    /\ result_final = FALSE
    /\ downstream_callback = [module_type |-> None, callback_when_final |-> TRUE]
    /\ worker_log = NoWorkerLog
    /\ stt = NoSttCall

\* ---- src/modules/webrtcvad/vad.py: the module after __init__ -------------

\* time.time() advances at most MaxVadTicks times
MaxVadTicks == 4
\* a chunk is only appended while _audio_buffer holds fewer than MaxBuffer
MaxBuffer == 2

\* time.mktime(time.gmtime(0)), in milliseconds
Epoch == 0
\* the clock is read in steps of TimeStep milliseconds
TimeStep == 50
\* time.time() when the first frame arrives: long after the epoch
Boot == Epoch + 20 * TimeStep

SampleRates == {8000, 16000}
FrameDurations == {10, 20}
SleepDurations == {0, 2 * TimeStep}
\* len(audio.main) of the record handed in
MainLengths == {159, 160, 319, 320, 640}

NoVadCall ==
    [op |-> "none", exc |-> None, sample_rate |-> 0, frame_duration_ms |-> 0,
     speech_sleep_duration_ms |-> 0, callback_when_speech_ended |-> FALSE,
     callback |-> None, main_len |-> 0, stream_last |-> NoChunk, due |-> FALSE,
     vad_is_speech |-> FALSE, is_speech |-> FALSE, fired |-> FALSE,
     delivered |-> <<>>, now |-> Epoch, last_speech_time_before |-> Epoch,
     callbacked_before |-> TRUE, audio_buffer_before |-> <<>>]

VadInitNotCallbacked ==
    /\ last_speech_time = Epoch
    /\ callbacked = FALSE
    /\ audio_buffer = <<>>
    /\ vad_clock = Boot
    /\ vad = NoVadCall

vad_init ==
    /\ last_speech_time = Epoch
    /\ callbacked = TRUE
    /\ audio_buffer = <<>>
    /\ vad_clock = Boot
    /\ vad = NoVadCall

\* ---- src/modules/audio/mic.py: the module after __init__ -----------------

\* time.time() of the capture loop is read while it is below MaxMicClock
MaxMicClock == 4
\* a dispatch thread is only started while fewer than MaxThreads older ones live
MaxThreads == 1

\* boundary and alive_at_boundary tell what the last chunk boundary of the call
\* did: whether self._thread was alive there and whether a thread was started
\* a record of the capture loop: audio.main is the bytes joined when it was
\* built; audio.stream wraps the list object frames itself. live: the log is
\* still the list the loop appends to; otherwise the loop has rebound frames
\* and stream holds the chunks the list was left with. A chunk is known by its
\* number, a byte by the number of the chunk it came with, the record object
\* by the number of the chunk that was closed when it was built (id).
NoMicRecord == [id |-> 0, main |-> <<>>, live |-> FALSE, stream |-> <<>>]

\* current_call_data is the local of call() that the dispatch threads read;
\* boundary and alive_at_boundary tell what the last chunk boundary of the call
\* did: whether self._thread was alive there and whether a thread was started
NoMicCall ==
    [pc |-> "idle", stream_duration_milliseconds |-> 0,
     destruction_milliseconds |-> 0, callback |-> None,
     callback_when_thread_is_alive |-> FALSE, closed |-> 0,
     boundary |-> "none", alive_at_boundary |-> FALSE,
     current_call_data |-> NoMicRecord]

\* a dispatch thread runs call_module_in_thread. called: it has read
\* current_call_data and holds that record (data); handed: the router has
\* copied the record. born is the number of the chunk closed at the boundary
\* that started the thread.
NoMicThread == [called |-> FALSE, handed |-> FALSE, data |-> NoMicRecord, born |-> 0]

mic_init ==
    /\ frames = <<>>
    /\ frame = 0
    /\ frame_time = 0
    /\ mic_clock = 0
    /\ mic_thread = [alive |-> FALSE, newest |-> NoMicThread, older |-> <<>>]
    /\ mic_log = [produced |-> 0, delivered |-> <<>>, default_only |-> TRUE,
                  given |-> NoMicRecord, born |-> 0]
    /\ mic = NoMicCall

\* ---- src/modules/serial.py, src/modules/google/tts.py: before a call ----

\* params.modules holds at most MaxModules entries
MaxModules == 3
\* the sequence handed to the text-to-speech module holds at most MaxRecords
MaxRecords == 3

NoSerialCall ==
    [op |-> "none", data |-> <<>>, modules |-> <<>>, invoked |-> <<>>,
     result |-> <<>>, exc |-> None]

\* a record as the text-to-speech module reads it: has_text is false for
\* text = None; main is None for AkariDataSetType() and for a missing text
NoTtsRecord == [has_text |-> FALSE, main |-> None, audio |-> None]

NoTtsCall ==
    [op |-> "none", data |-> <<>>, callback |-> None, vendor |-> "n/a",
     vendor_called |-> FALSE, result |-> NoTtsRecord, exc |-> None]

\* what a call_module made inside a module operation decided
NoInner == [ran |-> FALSE, prev_end |-> NoTime, start_time |-> NoTime, end_time |-> NoTime]

\* no module operation that calls the router is running
NoOuter ==
    [thread |-> None, module_type |-> None, params |-> None, callback |-> None,
     prev_end |-> NoTime, start_time |-> NoTime, now |-> NoTime,
     caller_data |-> <<>>, tl_before |-> [t \in Threads |-> NoTime],
     inner |-> NoInner]

NoCall ==
    [op |-> "init", exc |-> None, thread |-> None, module_type |-> None,
     streaming |-> FALSE, selected |-> None, module_ran |-> FALSE,
     input_ref |-> None, input_after |-> <<>>,
     result |-> [type |-> None, rec |-> NoRecord, ref |-> None],
     batch |-> <<>>, first |-> FALSE, prev_end |-> NoTime,
     start_time |-> NoTime, end_time |-> NoTime,
     set_module_on |-> "n/a", ret_ref |-> None,
     data_before |-> <<>>,
     modules_before |-> [mt \in ModuleTypes |-> None],
     tl_before |-> [t \in Threads |-> NoTime],
     now |-> NoTime, inner |-> NoInner]

Init ==
    /\ modules = [mt \in ModuleTypes |-> None]
    /\ thread_last_perf_counter = [t \in Threads |-> NoTime]
    /\ options_duration \in BOOLEAN
    /\ clock = 0
    /\ data = <<>>
    /\ outer = NoOuter
    /\ call = NoCall
    /\ stt_init
    /\ vad_init
    /\ mic_init
    /\ serial = NoSerialCall
    /\ tts = NoTtsCall

\* ---- src/akari/router.py: add_modules ------------------------------------

\* a dict of modules in iteration order: pairs <<module_type, module_instance>>
\* with distinct keys
Batches ==
    {<<p>> : p \in ModuleTypes \X Instances}
        \cup {<<p, q>> : <<p, q>> \in
                {pq \in (ModuleTypes \X Instances) \X (ModuleTypes \X Instances) :
                    pq[1][1] # pq[2][1]}}

RegisterOverwrite(mods, module_type, module_instance) ==
    [modules |-> [mods EXCEPT ![module_type] = module_instance], exc |-> None]

\* one iteration of the loop of add_modules
Register(mods, module_type, module_instance) ==
    IF mods[module_type] = None
    THEN [modules |-> [mods EXCEPT ![module_type] = module_instance], exc |-> None]
    ELSE [modules |-> mods, exc |-> "ValueError_already_exists"]

RegisterAllOrNothing(mods, batch) ==
    IF \E i \in DOMAIN batch : mods[batch[i][1]] # None
    THEN [modules |-> mods, exc |-> "ValueError_already_exists"]
    ELSE [modules |-> [mt \in ModuleTypes |->
                         IF \E i \in DOMAIN batch : batch[i][1] = mt
                         THEN batch[CHOOSE i \in DOMAIN batch : batch[i][1] = mt][2]
                         ELSE mods[mt]],
          exc |-> None]

RECURSIVE RegisterAll(_, _)
\* the loop of add_modules: the raise leaves the earlier entries registered
RegisterAll(mods, batch) ==
    IF batch = <<>>
    THEN [modules |-> mods, exc |-> None]
    ELSE LET r == Register(mods, Head(batch)[1], Head(batch)[2])
         IN  IF r.exc # None THEN r ELSE RegisterAll(r.modules, Tail(batch))

add_modules(batch) ==
    LET r == RegisterAll(modules, batch)
    IN  /\ call = NoCall
        /\ modules' = r.modules
        /\ call' = [NoCall EXCEPT !.op = "add_modules", !.exc = r.exc, !.batch = batch,
                                  !.modules_before = modules]
        /\ UNCHANGED <<thread_last_perf_counter, options_duration, clock, data, outer>>
        /\ UNCHANGED <<stt_vars, vad_vars, mic_vars, serial_vars, tts_vars>>

\* ---- src/akari/router.py: call_module ------------------------------------

SelectedModuleDefault(mods, module_type) ==
    IF mods[module_type] = None THEN "i1" ELSE mods[module_type]

\* self._modules.get(module_type)
selected_module(mods, module_type) == mods[module_type]

DeepCopyAlias(ref) == ref

\* copy.deepcopy(data): a new object, here the one named "copy"
DeepCopy(ref) == "copy"

IsNotAkariData(result) == result.type # "AkariData"

\* isinstance(result, akari_data._AkariDataSet)
IsAkariDataSet(result) == result.type = "AkariDataSet"

\* isinstance(result, akari_data._AkariData)
IsAkariData(result) == result.type = "AkariData"

\* lines 126-170: lookup, perf_counter reading and the start time
Prepare(t, module_type, streaming) ==
    LET selected == selected_module(modules, module_type)
        current_perf_counter == clock
        last_stream_call_end_time_in_thread == thread_last_perf_counter[t]
        s0 == [exc |-> None, selected |-> selected, now |-> current_perf_counter,
               prev_end |-> last_stream_call_end_time_in_thread,
               start_time |-> NoTime]
    IN  IF selected = None
        THEN [s0 EXCEPT !.exc = "ValueError_not_found", !.now = NoTime, !.prev_end = NoTime]
        ELSE IF streaming
        THEN IF last_stream_call_end_time_in_thread = NoTime
             THEN [s0 EXCEPT !.start_time = current_perf_counter]
             ELSE [s0 EXCEPT !.start_time = last_stream_call_end_time_in_thread]
        ELSE IF Len(data) > 0 /\ last(data).module # NoModule
        THEN IF "end_time" \in ModuleTypeFields
             THEN [s0 EXCEPT !.start_time = last(data).module.endTime]
             ELSE [s0 EXCEPT !.exc = "AttributeError_end_time"]
        ELSE [s0 EXCEPT !.start_time = current_perf_counter]

RaisedAfterEndTime(s1, t, end_time_for_dataset) ==
    [s1 EXCEPT !.exc = "ModuleError", !.tl = [@ EXCEPT ![t] = end_time_for_dataset]]

\* the module operation raises: no line of call_module after it is run
raised(s1, t, end_time_for_dataset) == [s1 EXCEPT !.exc = "ModuleError"]

\* lines 172-191: deep copy, the module operation, end time, per-thread state
Invoke(t, streaming, p, b) ==
    LET input_ref == DeepCopy("data")
        heap0 == [r \in {"data", "copy", "new"} |-> IF r = "new" THEN <<>> ELSE data]
        heap1 == [heap0 EXCEPT ![input_ref] = Mutate(@, b.mut)]
        end_time_for_dataset == clock + b.dt
        s1 == [exc |-> None, heap |-> heap1, input_ref |-> input_ref,
               start_time |-> p.start_time, end_time |-> NoTime,
               tl |-> thread_last_perf_counter]
    IN  IF b.result.type = "raise"
        THEN raised(s1, t, end_time_for_dataset)
        ELSE [s1 EXCEPT
                !.end_time = end_time_for_dataset,
                !.start_time = IF streaming /\ p.prev_end = NoTime
                               THEN end_time_for_dataset ELSE p.start_time,
                !.tl = IF streaming
                       THEN [thread_last_perf_counter EXCEPT ![t] = end_time_for_dataset]
                       ELSE thread_last_perf_counter]

\* result.set_module(m) on the record at position i of object ref
CallSetModule(s, ref, i, m) ==
    IF "set_module" \in DataSetMethods
    THEN [s EXCEPT !.heap[ref][i] = setModule(@, m)]
    ELSE [s EXCEPT !.exc = "AttributeError_set_module"]

\* lines 194-223: the result is appended, or replaces the sequence, or is refused
HandleResult(module_type, streaming, params, callback, s1, b) ==
    LET result == b.result
        m == AkariDataModuleType(module_type, params, streaming, callback,
                                 s1.start_time, s1.end_time)
        s2 == [exc |-> None, heap |-> s1.heap, set_module_on |-> "n/a", ret_ref |-> None]
    IN  IF IsAkariDataSet(result)
        THEN LET withNew == [s2 EXCEPT !.heap["new"] = <<result.rec>>]
                 s3 == IF result.rec.module = NoModule
                       THEN CallSetModule([withNew EXCEPT !.set_module_on = "no_module"], "new", 1, m)
                       ELSE withNew
             IN  IF s3.exc # None
                 THEN [s3 EXCEPT !.heap["new"] = <<>>]
                 ELSE [s3 EXCEPT !.heap["data"] = add(@, s3.heap["new"][1]),
                                 !.heap["new"] = <<>>,
                                 !.ret_ref = "data"]
        ELSE IF IsAkariData(result)
        THEN LET ref == IF result.ref = "input" THEN s1.input_ref ELSE "new"
                 n == Len(s2.heap[ref])
                 s3 == IF n > 0
                       THEN CallSetModule(
                                [s2 EXCEPT !.set_module_on =
                                    IF last(s2.heap[ref]).module = NoModule
                                    THEN "no_module" ELSE "has_module"],
                                ref, n, m)
                       ELSE s2
             IN  IF s3.exc # None THEN s3 ELSE [s3 EXCEPT !.ret_ref = ref]
        ELSE [s2 EXCEPT !.exc = "ValueError_invalid_result"]

\* lines 225-235: the duration log reads the last record of the sequence
LogDuration(s2) ==
    IF ~options_duration
    THEN None
    ELSE IF Len(s2.heap[s2.ret_ref]) = 0
    THEN "IndexError_no_datasets"
    ELSE IF last(s2.heap[s2.ret_ref]).module # NoModule /\ "end_time" \notin ModuleTypeFields
    THEN "AttributeError_end_time"
    ELSE None

call_module(t, module_type, streaming, params, callback) ==
    LET p == Prepare(t, module_type, streaming)
        c0 == [NoCall EXCEPT !.op = "call_module", !.thread = t,
                  !.module_type = module_type, !.streaming = streaming,
                  !.selected = p.selected, !.prev_end = p.prev_end,
                  !.first = streaming /\ p.selected # None /\ p.prev_end = NoTime,
                  !.start_time = p.start_time, !.exc = p.exc,
                  !.data_before = data, !.modules_before = modules,
                  !.tl_before = thread_last_perf_counter, !.now = clock]
    IN  IF p.exc # None
        THEN /\ call = NoCall
             /\ call' = c0
             /\ UNCHANGED <<modules, thread_last_perf_counter, options_duration,
                            clock, data, outer>>
        ELSE \E b \in ModuleBehaviours :
        /\ call = NoCall
        /\ clock + b.dt <= MaxTime
        /\ LET s1 == Invoke(t, streaming, p, b)
               c1 == [c0 EXCEPT !.module_ran = TRUE, !.input_ref = s1.input_ref,
                         !.input_after = s1.heap[s1.input_ref], !.result = b.result,
                         !.start_time = s1.start_time, !.end_time = s1.end_time,
                         !.exc = s1.exc]
           IN  /\ clock' = clock + b.dt
               /\ thread_last_perf_counter' = s1.tl
               /\ UNCHANGED <<modules, options_duration, outer>>
               /\ IF s1.exc # None
                  THEN /\ data' = s1.heap["data"]
                       /\ call' = c1
                  ELSE LET s2 == HandleResult(module_type, streaming, params, callback, s1, b)
                           c2 == [c1 EXCEPT !.set_module_on = s2.set_module_on,
                                            !.exc = s2.exc]
                       IN  /\ data' = s2.heap["data"]
                           /\ IF s2.exc # None
                              THEN call' = c2
                              ELSE LET e == LogDuration(s2)
                                   IN  call' = IF e # None
                                               THEN [c2 EXCEPT !.exc = e]
                                               ELSE [c2 EXCEPT !.ret_ref = s2.ret_ref]

\* ---- the caller -----------------------------------------------------------

\* the caller builds its sequence: _AkariData.add
caller_add(dataset) ==
    /\ call = NoCall
    /\ Len(data) < MaxLen
    /\ data' = add(data, dataset)
    /\ UNCHANGED <<modules, thread_last_perf_counter, options_duration, clock, outer, call>>
    /\ UNCHANGED <<stt_vars, vad_vars, mic_vars, serial_vars, tts_vars>>

\* the caller starts over with a fresh _AkariData()
caller_new ==
    /\ call = NoCall
    /\ data # <<>>
    /\ data' = <<>>
    /\ UNCHANGED <<modules, thread_last_perf_counter, options_duration, clock, outer, call>>
    /\ UNCHANGED <<stt_vars, vad_vars, mic_vars, serial_vars, tts_vars>>

\* the call is over: the caller drops what it returned or raised and goes on
caller_continues ==
    /\ call # NoCall
    /\ outer = NoOuter
    /\ call' = NoCall
    /\ UNCHANGED <<modules, thread_last_perf_counter, options_duration, clock, data, outer>>
    /\ UNCHANGED <<stt_vars, vad_vars, mic_vars, serial_vars, tts_vars>>

\* time passes between two calls
Tick ==
    /\ call = NoCall
    /\ clock < MaxTime
    /\ clock' = clock + 1
    /\ UNCHANGED <<modules, thread_last_perf_counter, options_duration, data, outer, call>>
    /\ UNCHANGED <<stt_vars, vad_vars, mic_vars, serial_vars, tts_vars>>

AddModules == \E batch \in Batches : add_modules(batch)

CallModule ==
    \E t \in Threads, module_type \in ModuleTypes, streaming \in BOOLEAN,
       params \in Params, callback \in Callbacks :
        /\ Len(data) < MaxLen
        /\ call_module(t, module_type, streaming, params, callback)
        /\ UNCHANGED <<stt_vars, vad_vars, mic_vars, serial_vars, tts_vars>>

CallerAdd == \E dataset \in ModuleRecords : caller_add(dataset)

Next == AddModules \/ CallModule \/ CallerAdd \/ caller_new \/ caller_continues \/ Tick

Spec == Init /\ [][Next]_vars

\* ---- src/akari/router.py: call_module made inside a module operation ------
\* A streaming call_module whose module operation calls the router again on
\* the same thread before it returns (as a module with a callback does). The
\* outer call is split where the module operation starts and ends; between
\* the two, data is the copy the module operation holds.

OuterStartRereads(o, end_time_for_dataset) ==
    IF thread_last_perf_counter[o.thread] = NoTime
    THEN end_time_for_dataset
    ELSE thread_last_perf_counter[o.thread]

\* lines 186-187: the test is made on the local read before the operation
outer_start_time(o, end_time_for_dataset) ==
    IF o.prev_end = NoTime THEN end_time_for_dataset ELSE o.start_time

\* the outer call as the caller sees it when it is over
outer_call(o) ==
    [NoCall EXCEPT !.op = "call_module", !.thread = o.thread,
                   !.module_type = o.module_type, !.streaming = TRUE,
                   !.selected = selected_module(modules, o.module_type),
                   !.module_ran = TRUE, !.input_ref = DeepCopy("data"),
                   !.input_after = data,
                   !.prev_end = o.prev_end, !.first = o.prev_end = NoTime,
                   !.start_time = o.start_time,
                   !.data_before = o.caller_data, !.modules_before = modules,
                   !.tl_before = o.tl_before, !.now = o.now, !.inner = o.inner]

\* lines 146-177 of the outer call: the start time is decided, the input is
\* copied and stream_call of the selected module is entered
outer_enters(t, module_type, params, callback) ==
    LET p == Prepare(t, module_type, TRUE)
    IN  /\ call = NoCall
        /\ outer = NoOuter
        /\ p.exc = None
        /\ outer' = [NoOuter EXCEPT
                       !.thread = t, !.module_type = module_type,
                       !.params = params, !.callback = callback,
                       !.prev_end = p.prev_end, !.start_time = p.start_time,
                       !.now = p.now, !.caller_data = data,
                       !.tl_before = thread_last_perf_counter]
        /\ UNCHANGED <<modules, thread_last_perf_counter, options_duration, clock,
                       data, call>>

\* the call made inside the operation is over: the operation goes on with
\* what it returned, or the error leaves the operation and the outer call
inner_returns ==
    LET inner == [ran |-> TRUE, prev_end |-> call.prev_end,
                  start_time |-> call.start_time, end_time |-> call.end_time]
    IN  /\ outer # NoOuter
        /\ call # NoCall
        /\ IF call.exc = None
           THEN /\ outer' = [outer EXCEPT !.inner = inner]
                /\ call' = NoCall
                /\ UNCHANGED data
           ELSE /\ outer' = NoOuter
                /\ call' = [outer_call([outer EXCEPT !.inner = inner]) EXCEPT
                              !.exc = call.exc]
                /\ data' = outer.caller_data
        /\ UNCHANGED <<modules, thread_last_perf_counter, options_duration, clock>>
        /\ UNCHANGED <<stt_vars, vad_vars, mic_vars, serial_vars, tts_vars>>

\* the module operations that call the router leave their input as it is
OuterBehaviours == {b \in ModuleBehaviours : b.mut = "none"}

\* lines 178-237 of the outer call: the operation returns or raises, the end
\* time is read and stored for the thread, the result is handled
outer_returns(b) ==
    LET end_time_for_dataset == clock + b.dt
        op_raised == b.result.type = "raise"
        s1 == [exc |-> IF op_raised THEN "ModuleError" ELSE None,
               heap |-> [r \in {"data", "copy", "new"} |->
                           IF r = "data" THEN outer.caller_data
                           ELSE IF r = "copy" THEN data ELSE <<>>],
               input_ref |-> DeepCopy("data"),
               start_time |-> IF op_raised THEN outer.start_time
                              ELSE outer_start_time(outer, end_time_for_dataset),
               end_time |-> IF op_raised THEN NoTime ELSE end_time_for_dataset]
        c1 == [outer_call(outer) EXCEPT
                  !.result = b.result, !.start_time = s1.start_time,
                  !.end_time = s1.end_time, !.exc = s1.exc]
    IN  /\ outer # NoOuter
        /\ call = NoCall
        /\ outer.inner.ran
        /\ clock + b.dt <= MaxTime
        /\ clock' = clock + b.dt
        /\ outer' = NoOuter
        /\ thread_last_perf_counter' =
              IF op_raised THEN thread_last_perf_counter
              ELSE [thread_last_perf_counter EXCEPT ![outer.thread] = end_time_for_dataset]
        /\ UNCHANGED <<modules, options_duration>>
        /\ IF op_raised
           THEN /\ data' = outer.caller_data
                /\ call' = c1
           ELSE LET s2 == HandleResult(outer.module_type, TRUE, outer.params,
                                       outer.callback, s1, b)
                    c2 == [c1 EXCEPT !.set_module_on = s2.set_module_on, !.exc = s2.exc]
                IN  /\ data' = s2.heap["data"]
                    /\ IF s2.exc # None
                       THEN call' = c2
                       ELSE LET e == LogDuration(s2)
                            IN  call' = IF e # None
                                        THEN [c2 EXCEPT !.exc = e]
                                        ELSE [c2 EXCEPT !.ret_ref = s2.ret_ref]

OuterEnters ==
    \E t \in Threads, module_type \in ModuleTypes, params \in Params,
       callback \in Callbacks :
        /\ Len(data) < MaxLen
        /\ outer_enters(t, module_type, params, callback)
        /\ UNCHANGED <<stt_vars, vad_vars, mic_vars, serial_vars, tts_vars>>

\* the operation calls the router once, streaming, on its own thread
InnerCall ==
    \E module_type \in ModuleTypes, params \in Params, callback \in Callbacks :
        /\ outer # NoOuter
        /\ ~outer.inner.ran
        /\ Len(data) < MaxLen
        /\ call_module(outer.thread, module_type, TRUE, params, callback)
        /\ UNCHANGED <<stt_vars, vad_vars, mic_vars, serial_vars, tts_vars>>

OuterReturns ==
    \E b \in OuterBehaviours :
        /\ outer_returns(b)
        /\ UNCHANGED <<stt_vars, vad_vars, mic_vars, serial_vars, tts_vars>>

NextNested ==
    \/ outer = NoOuter /\ Next
    \/ OuterEnters
    \/ InnerCall
    \/ inner_returns
    \/ OuterReturns

SpecNested == Init /\ [][NextNested]_vars

\* ---- src/modules/google/stt.py: the session --------------------------------
\* One module instance and one caller thread that calls stream_call and
\* close() one after the other; the processing threads run beside it.

\* the methods the router offers (src/akari/router.py)
RouterMethods == {"add_modules", "call_module"}

\* threading.Thread.is_alive()
IsAlive(w) == w # NoThread /\ worker[w].pc \notin {"unborn", "dead"}

\* the thread object that threading.Thread(...) creates next
NextThread == Cardinality({w \in Workers : worker[w].pc # "unborn"}) + 1

\* the request generator of worker w is running: it takes items from the queue
Consuming(w) == worker[w].pc = "streaming"

\* stream_call's result record: the transcripts so far and the finality flag
ResultDataSet(delta, final) ==
    [type |-> "AkariDataSet",
     text |-> IF Len(delta) > 0 THEN delta[Len(delta)] ELSE "",
     stream |-> delta,
     bool |-> IF final THEN "True" ELSE "False"]

SttCall(op, end_stream_flag, audio_chunk) ==
    [NoSttCall EXCEPT !.op = op, !.end_stream_flag = end_stream_flag,
                      !.audio_chunk = audio_chunk,
                      !.active_before = is_streaming_active,
                      !.queue_before = audio_queue,
                      !.thread_before = processing_thread,
                      !.alive_before = {w \in Workers : IsAlive(w)}]

\* _start_streaming_session: the flag, the callback fields, the emptied queue
\* and the new thread
start_streaming_session(callback, callback_when_final) ==
    [active |-> TRUE,
     callback |-> [module_type |-> callback, callback_when_final |-> callback_when_final],
     queue |-> <<>>,
     thread |-> NextThread,
     workers |-> [worker EXCEPT ![NextThread] = [pc |-> "streaming", exc |-> FALSE]]]

\* _stop_streaming_session up to join(): the flag is cleared and the sentinel
\* pushed; the caller then waits for the thread if it is alive. held tells
\* whether the caller holds _lock (stream_call does, close() does not).
stop_streaming_session(c, held) ==
    /\ is_streaming_active' = FALSE
    /\ audio_queue' = Append(audio_queue, None)
    /\ IF IsAlive(processing_thread)
       THEN /\ lock' = held
            /\ stt' = [c EXCEPT !.pc = "join", !.held = held]
            /\ UNCHANGED processing_thread
       ELSE /\ processing_thread' = NoThread
            /\ stt' = [c EXCEPT !.pc = "returned", !.held = held,
                                !.result = IF held THEN EmptyDataSet ELSE NoResult]
            /\ UNCHANGED lock
    /\ UNCHANGED <<worker, result_delta, result_final, downstream_callback>>

\* the end_stream_flag branch of stream_call
EndStreamAlways(c) == stop_streaming_session(c, TRUE)

end_stream(c) ==
    IF is_streaming_active
    THEN stop_streaming_session(c, TRUE)
    ELSE /\ stt' = [c EXCEPT !.pc = "returned", !.result = EmptyDataSet]
         /\ UNCHANGED <<is_streaming_active, audio_queue, processing_thread, lock,
                        worker, result_delta, result_final, downstream_callback>>

\* put blocks while a queue with a maxsize holds maxsize items
queue_full(q) == maxsize > 0 /\ Len(q) >= maxsize

\* the rest of the locked part of stream_call: start a session if there is
\* none and push the chunk; then _lock is released
push_chunk(c, audio_chunk, callback, callback_when_final) ==
    LET starting == ~is_streaming_active
        s == IF starting
             THEN start_streaming_session(callback, callback_when_final)
             ELSE [active |-> is_streaming_active, callback |-> downstream_callback,
                   queue |-> audio_queue,
                   thread |-> processing_thread, workers |-> worker]
    IN  /\ starting => NextThread \in Workers
        /\ audio_chunk # NoChunk => Len(s.queue) < MaxQueue /\ ~queue_full(s.queue)
        /\ is_streaming_active' = s.active
        /\ downstream_callback' = s.callback
        /\ audio_queue' = IF audio_chunk # NoChunk /\ s.active
                          THEN Append(s.queue, audio_chunk)
                          ELSE s.queue
        /\ processing_thread' = s.thread
        /\ worker' = s.workers
        /\ stt' = [c EXCEPT !.pc = "tail", !.held = TRUE,
                            !.started = IF starting THEN s.thread ELSE NoThread]
        /\ UNCHANGED <<lock, result_delta, result_final>>

stream_call(end_stream_flag, audio_chunk, callback, callback_when_final) ==
    /\ stt.pc = "idle"
    /\ IF end_stream_flag
       THEN end_stream(SttCall("stream_call", TRUE, audio_chunk))
       ELSE push_chunk(SttCall("stream_call", FALSE, audio_chunk), audio_chunk,
                       callback, callback_when_final)
    /\ worker_log' = NoWorkerLog
    /\ UNCHANGED <<router_vars, vad_vars, mic_vars, serial_vars, tts_vars>>

\* after the locked part: the result record is built from a copy of the
\* transcripts and from the finality flag
build_result ==
    /\ stt.pc = "tail"
    /\ stt' = [stt EXCEPT !.pc = "built", !.held = FALSE,
                          !.result = ResultDataSet(result_delta, result_final)]
    /\ worker_log' = NoWorkerLog
    /\ UNCHANGED <<is_streaming_active, audio_queue, processing_thread, lock, worker,
                   result_delta, result_final, downstream_callback>>
    /\ UNCHANGED <<router_vars, vad_vars, mic_vars, serial_vars, tts_vars>>

\* if self._result_final: the flag is read again after the record was built
clear_due(final) == final

\* the transcripts are cleared if the flag is set now, and the record returned
clear_result ==
    /\ stt.pc = "built"
    /\ result_delta' = IF clear_due(result_final) THEN <<>> ELSE result_delta
    /\ result_final' = FALSE
    /\ stt' = [stt EXCEPT !.pc = "returned", !.held = FALSE]
    /\ worker_log' = NoWorkerLog
    /\ UNCHANGED <<is_streaming_active, audio_queue, processing_thread, lock, worker,
                   downstream_callback>>
    /\ UNCHANGED <<router_vars, vad_vars, mic_vars, serial_vars, tts_vars>>

\* close(): stops an active session without taking _lock
close ==
    /\ stt.pc = "idle"
    /\ IF is_streaming_active
       THEN stop_streaming_session(SttCall("close", FALSE, NoChunk), FALSE)
       ELSE /\ stt' = [SttCall("close", FALSE, NoChunk) EXCEPT !.pc = "returned"]
            /\ UNCHANGED <<is_streaming_active, audio_queue, processing_thread, lock,
                           worker, result_delta, result_final, downstream_callback>>
    /\ worker_log' = NoWorkerLog
    /\ UNCHANGED <<router_vars, vad_vars, mic_vars, serial_vars, tts_vars>>

\* join(timeout=2.0) returns: the thread has ended, or the two seconds are over
\* with the thread alive; the handle is dropped either way
join_returns ==
    /\ stt.pc = "join"
    /\ processing_thread' = NoThread
    /\ lock' = FALSE
    /\ stt' = [stt EXCEPT !.pc = "returned",
                          !.join = IF IsAlive(processing_thread)
                                   THEN "timeout" ELSE "joined",
                          !.result = IF stt.op = "stream_call"
                                     THEN EmptyDataSet ELSE NoResult]
    /\ worker_log' = NoWorkerLog
    /\ UNCHANGED <<is_streaming_active, audio_queue, worker, result_delta, result_final,
                   downstream_callback>>
    /\ UNCHANGED <<router_vars, vad_vars, mic_vars, serial_vars, tts_vars>>

\* the call is over: the caller goes on
stt_caller_continues ==
    /\ stt.pc = "returned"
    /\ stt' = NoSttCall
    /\ worker_log' = NoWorkerLog
    /\ UNCHANGED <<is_streaming_active, audio_queue, processing_thread, lock, worker,
                   result_delta, result_final, downstream_callback>>
    /\ UNCHANGED <<router_vars, vad_vars, mic_vars, serial_vars, tts_vars>>

\* ---- src/modules/google/stt.py: the processing thread ----------------------

\* _audio_chunk_provider: one turn of its loop. It takes the oldest item and
\* ends on the sentinel; with nothing queued it ends once the session is not
\* active and waits otherwise.
audio_chunk_provider(w) ==
    /\ stt.pc # "returned"
    /\ worker[w].pc = "streaming"
    /\ IF audio_queue # <<>>
       THEN /\ audio_queue' = Tail(audio_queue)
            /\ worker' = IF Head(audio_queue) = None
                         THEN [worker EXCEPT ![w].pc = "closing"]
                         ELSE worker
            /\ worker_log' = IF Head(audio_queue) = None
                             THEN NoWorkerLog
                             ELSE [w |-> w, event |-> "fed", owner |-> NextThread - 1]
       ELSE /\ ~is_streaming_active
            /\ worker' = [worker EXCEPT ![w].pc = "closing"]
            /\ worker_log' = NoWorkerLog
            /\ UNCHANGED audio_queue
    /\ UNCHANGED <<is_streaming_active, processing_thread, lock, result_delta,
                   result_final, downstream_callback, stt>>
    /\ UNCHANGED <<router_vars, vad_vars, mic_vars, serial_vars, tts_vars>>

\* if self._downstream_callback_module_type and (is_final or not
\* self._callback_when_final)
callback_due(is_final) ==
    /\ downstream_callback.module_type # None
    /\ is_final \/ ~downstream_callback.callback_when_final

CallbackErrorEndsWorker(pc) == "cleanup"

\* except Exception as e_router: the error is logged and the loop goes on
after_callback_error(pc) == pc

\* one response of the recognizer: the loop is left when the session is not
\* active and the queue is empty, else the transcript is kept and, if due,
\* handed to the callback through self._router.callModule, which the router
\* does not have: the call raises AttributeError inside the try block
processor_response(w, transcript, is_final) ==
    /\ stt.pc # "returned"
    /\ worker[w].pc \in {"streaming", "closing"}
    /\ IF ~is_streaming_active /\ audio_queue = <<>>
       THEN /\ worker' = [worker EXCEPT ![w].pc = "cleanup"]
            /\ worker_log' = NoWorkerLog
            /\ UNCHANGED <<result_delta, result_final>>
       ELSE /\ Len(result_delta) < MaxDelta
            /\ result_delta' = Append(result_delta, transcript)
            /\ result_final' = (result_final \/ is_final)
            /\ IF callback_due(is_final) /\ "callModule" \notin RouterMethods
               THEN /\ worker' = [worker EXCEPT ![w].pc = after_callback_error(@)]
                    /\ worker_log' = [w |-> w, event |-> "callback_error",
                                      owner |-> NextThread - 1]
               ELSE /\ worker_log' = NoWorkerLog
                    /\ UNCHANGED worker
    /\ UNCHANGED <<is_streaming_active, audio_queue, processing_thread, lock,
                   downstream_callback, stt>>
    /\ UNCHANGED <<router_vars, vad_vars, mic_vars, serial_vars, tts_vars>>

\* the responses end after the request generator has ended
processor_responses_end(w) ==
    /\ stt.pc # "returned"
    /\ worker[w].pc = "closing"
    /\ worker' = [worker EXCEPT ![w].pc = "cleanup"]
    /\ worker_log' = NoWorkerLog
    /\ UNCHANGED <<is_streaming_active, audio_queue, processing_thread, lock,
                   result_delta, result_final, downstream_callback, stt>>
    /\ UNCHANGED <<router_vars, vad_vars, mic_vars, serial_vars, tts_vars>>

\* the recognizer raises: except Exception logs it
processor_exception(w) ==
    /\ stt.pc # "returned"
    /\ worker[w].pc \in {"streaming", "closing"}
    /\ worker' = [worker EXCEPT ![w] = [pc |-> "cleanup", exc |-> TRUE]]
    /\ worker_log' = NoWorkerLog
    /\ UNCHANGED <<is_streaming_active, audio_queue, processing_thread, lock,
                   result_delta, result_final, downstream_callback, stt>>
    /\ UNCHANGED <<router_vars, vad_vars, mic_vars, serial_vars, tts_vars>>

\* the flag after the finally block of a worker
FinallyKeepsFlag(active) == active

finally_flag(active) == FALSE

\* finally: under _lock the flag is cleared and, if the handle names a live
\* thread, a sentinel is pushed; then the thread ends
processor_finally(w) ==
    /\ stt.pc # "returned"
    /\ worker[w].pc = "cleanup"
    /\ ~lock
    /\ is_streaming_active' = finally_flag(is_streaming_active)
    /\ audio_queue' = IF IsAlive(processing_thread)
                      THEN Append(audio_queue, None)
                      ELSE audio_queue
    /\ worker' = [worker EXCEPT ![w].pc = "dead"]
    /\ worker_log' = NoWorkerLog
    /\ UNCHANGED <<processing_thread, lock, result_delta, result_final,
                   downstream_callback, stt>>
    /\ UNCHANGED <<router_vars, vad_vars, mic_vars, serial_vars, tts_vars>>

\* the caller passes the same callback and callback_when_final on every call
StreamCall ==
    \E end_stream_flag \in BOOLEAN, audio_chunk \in Chunks \cup {NoChunk},
       callback \in Callbacks \cup {None}, callback_when_final \in BOOLEAN :
        /\ NextThread > 1 =>
             /\ callback = downstream_callback.module_type
             /\ callback_when_final = downstream_callback.callback_when_final
        /\ stream_call(end_stream_flag, audio_chunk, callback, callback_when_final)

AudioChunkProvider == \E w \in Workers : audio_chunk_provider(w)

ProcessorResponse ==
    \E w \in Workers, transcript \in Transcripts, is_final \in BOOLEAN :
        processor_response(w, transcript, is_final)

ProcessorResponsesEnd == \E w \in Workers : processor_responses_end(w)

ProcessorException == \E w \in Workers : processor_exception(w)

ProcessorFinally == \E w \in Workers : processor_finally(w)

InitSTT == Init /\ options_duration = TRUE

NextSTT ==
    \/ StreamCall
    \/ build_result
    \/ clear_result
    \/ close
    \/ join_returns
    \/ stt_caller_continues
    \/ AudioChunkProvider
    \/ ProcessorResponse
    \/ ProcessorResponsesEnd
    \/ ProcessorException
    \/ ProcessorFinally

SpecSTT == InitSTT /\ [][NextSTT]_vars

\* stream_call with the default params and no callback
StreamCallDefault ==
    \E end_stream_flag \in BOOLEAN, audio_chunk \in Chunks \cup {NoChunk} :
        stream_call(end_stream_flag, audio_chunk, None, TRUE)

NextSTTDefault ==
    \/ StreamCallDefault
    \/ build_result
    \/ clear_result
    \/ close
    \/ join_returns
    \/ stt_caller_continues
    \/ AudioChunkProvider
    \/ ProcessorResponse
    \/ ProcessorResponsesEnd
    \/ ProcessorException
    \/ ProcessorFinally

\* join(timeout=2.0) returns after two seconds at the latest and the caller
\* returns from a call; a worker waiting for _lock in its finally block gets
\* it, the lock being released at the end of every stream_call. The caller
\* uses the default params: the callback fields play no part in the cleanup.
SpecSTTLive ==
    /\ InitSTT
    /\ [][NextSTTDefault]_vars
    /\ WF_vars(join_returns)
    /\ WF_vars(stt_caller_continues)
    /\ \A w \in Workers : SF_vars(processor_finally(w))

\* ---- src/modules/serial.py: call ------------------------------------------

\* the sequences of at most n elements of set S
SeqUpTo(S, n) == UNION {[1 .. k -> S] : k \in 0 .. n}

\* the record a listed module returns and the router appends with provenance
serial_output(module_type) ==
    setModule(AkariDataSet("x"),
              AkariDataModuleType(module_type, "p1", FALSE, None, 0, 1))

\* one turn of the loop: data = self._router.callModule(moduleType=...,
\* streaming=False). The router has no attribute callModule; call_module
\* would append the record after result.set_module(...)
serial_turn(datasets, module_type) ==
    IF "callModule" \notin RouterMethods
    THEN [data |-> datasets, invoked |-> FALSE, exc |-> "AttributeError_callModule"]
    ELSE IF "set_module" \notin DataSetMethods
    THEN [data |-> datasets, invoked |-> TRUE, exc |-> "AttributeError_set_module"]
    ELSE [data |-> add(datasets, serial_output(module_type)), invoked |-> TRUE,
          exc |-> None]

RECURSIVE serial_loop(_, _, _)
\* for module in params.modules: the turns in listed order, up to the first
\* that raises
serial_loop(datasets, listed, invoked) ==
    IF listed = <<>>
    THEN [data |-> datasets, invoked |-> invoked, exc |-> None]
    ELSE LET turn == serial_turn(datasets, Head(listed))
             ran == IF turn.invoked THEN Append(invoked, Head(listed)) ELSE invoked
         IN  IF turn.exc # None
             THEN [data |-> datasets, invoked |-> ran, exc |-> turn.exc]
             ELSE serial_loop(turn.data, Tail(listed), ran)

\* _SerialModule.call(data, params)
serial_call(datasets, listed) ==
    /\ serial = NoSerialCall
    /\ LET out == serial_loop(datasets, listed, <<>>)
       IN  serial' = [op |-> "call", data |-> datasets, modules |-> listed,
                      invoked |-> out.invoked,
                      result |-> IF out.exc = None THEN out.data ELSE <<>>,
                      exc |-> out.exc]
    /\ UNCHANGED <<router_vars, stt_vars, vad_vars, mic_vars, tts_vars>>

\* the call is over: the caller goes on
serial_caller_continues ==
    /\ serial # NoSerialCall
    /\ serial' = NoSerialCall
    /\ UNCHANGED <<router_vars, stt_vars, vad_vars, mic_vars, tts_vars>>

SerialCall ==
    \E datasets \in SeqUpTo(ModuleRecords, MaxLen),
       listed \in SeqUpTo(ModuleTypes, MaxModules) :
        serial_call(datasets, listed)

InitSerial == Init /\ options_duration = TRUE

NextSerial == SerialCall \/ serial_caller_continues

SpecSerial == InitSerial /\ [][NextSerial]_vars

\* ---- src/modules/google/tts.py: call --------------------------------------

TtsMains == {None, "", "hello"}

\* the records a sequence handed to the module may hold
TtsRecords ==
    {NoTtsRecord} \cup {[has_text |-> TRUE, main |-> m, audio |-> None] : m \in TtsMains}

\* if text_dataset and text_dataset.main
has_input_text(dataset) == dataset.has_text /\ dataset.main \notin {None, ""}

\* AkariDataSet() with text = AkariDataSetType(main=message)
TtsTextRecord(message) == [has_text |-> TRUE, main |-> message, audio |-> None]

\* the synthesis proper, inside try: the one-shot request without a callback;
\* with a callback the streaming request, whose every audio response goes to
\* self._router.callModule (an AttributeError, caught like an error of the
\* vendor by the inner except Exception)
synthesize(callback, vendor) ==
    IF callback = None
    THEN IF vendor = "ok"
         THEN [has_text |-> FALSE, main |-> None, audio |-> "audio_content"]
         ELSE TtsTextRecord("Error: Google TTS synthesis failed")
    ELSE IF vendor = "ok" /\ "callModule" \in RouterMethods
         THEN [has_text |-> FALSE, main |-> None, audio |-> "audio_content"]
         ELSE TtsTextRecord("Error: Google TTS streaming synthesis failed")

\* _GoogleTextToSpeechModule.call(data, params, callback)
tts_call(datasets, callback, vendor) ==
    /\ tts = NoTtsCall
    /\ LET c == [NoTtsCall EXCEPT !.op = "call", !.data = datasets,
                                  !.callback = callback]
       IN  tts' =
             IF datasets = <<>>
             THEN [c EXCEPT !.exc = "IndexError_no_datasets"]
             ELSE IF ~has_input_text(last(datasets))
             THEN [c EXCEPT !.result =
                               TtsTextRecord("Error: No text provided for synthesis.")]
             ELSE [c EXCEPT !.vendor = vendor, !.vendor_called = TRUE,
                            !.result = synthesize(callback, vendor)]
    /\ UNCHANGED <<router_vars, stt_vars, vad_vars, mic_vars, serial_vars>>

\* the call is over: the caller goes on
tts_caller_continues ==
    /\ tts # NoTtsCall
    /\ tts' = NoTtsCall
    /\ UNCHANGED <<router_vars, stt_vars, vad_vars, mic_vars, serial_vars>>

TtsCall ==
    \E datasets \in SeqUpTo(TtsRecords, MaxRecords),
       callback \in Callbacks \cup {None}, vendor \in {"ok", "raise"} :
        tts_call(datasets, callback, vendor)

InitTTS == Init /\ options_duration = TRUE

NextTTS == TtsCall \/ tts_caller_continues

SpecTTS == InitTTS /\ [][NextTTS]_vars

\* ---- properties ------------------------------------------------------------

CallRan == call.op = "call_module" /\ call.module_ran

\* the record the module returned was put at the end of the caller's sequence
AppendedToCaller ==
    /\ Len(data) = Len(call.data_before) + 1
    /\ SubSeq(data, 1, Len(call.data_before)) = call.data_before
    /\ last(data).main = call.result.rec.main

FreshRecordReturned ==
    CallRan /\ call.result.type = "AkariDataSet" /\ call.result.rec.module = NoModule

\* C1: the module operation works on another object than the caller's sequence,
\* so whatever it does to the sequence it received, the caller's sequence holds
\* the records it held before the call, changed at most by the router appending
\* the returned record.
C1_Isolation ==
    CallRan =>
        /\ call.input_ref # "data"
        /\ \/ data = call.data_before
           \/ call.result.type = "AkariDataSet" /\ AppendedToCaller

C1_Witness ==
    /\ CallRan
    /\ call.data_before # <<>>
    /\ call.input_after # call.data_before
    /\ data = call.data_before

\* C2: after a thread's first streaming call, the record the module returned
\* without provenance is in the caller's sequence with provenance whose
\* start time equals its end time.
C2_FirstStreamingZeroDuration ==
    (FreshRecordReturned /\ call.streaming /\ call.first) =>
        /\ AppendedToCaller
        /\ last(data).module # NoModule
        /\ last(data).module.startTime = last(data).module.endTime

\* C3: after a later streaming call of a thread, the provenance of the returned
\* record starts at the end time the thread's previous streaming call recorded.
C3_StreamingStitching ==
    (FreshRecordReturned /\ call.streaming /\ ~call.first) =>
        /\ AppendedToCaller
        /\ last(data).module # NoModule
        /\ last(data).module.startTime = call.tl_before[call.thread]

\* C4: a non-streaming call on a sequence whose last record has provenance with
\* end time T reaches the module with start time T.
C4_NonStreamingChaining ==
    (/\ call.op = "call_module"
     /\ ~call.streaming
     /\ call.modules_before[call.module_type] # None
     /\ call.data_before # <<>>
     /\ last(call.data_before).module # NoModule) =>
        /\ call.module_ran
        /\ call.start_time = last(call.data_before).module.endTime

\* C5: add_modules with a module type that is already registered raises the
\* duplicate error and leaves every registered type with the instance it had;
\* call_module dispatches to the instance the registry holds for the type.
C5_DuplicateRegistration ==
    /\ call.op = "add_modules" =>
          /\ \A mt \in ModuleTypes :
                call.modules_before[mt] # None => modules[mt] = call.modules_before[mt]
          /\ (\E i \in 1..Len(call.batch) : call.modules_before[call.batch[i][1]] # None)
                => call.exc = "ValueError_already_exists"
    /\ CallRan =>
          /\ call.selected = call.modules_before[call.module_type]
          /\ modules = call.modules_before

C5_Witness ==
    /\ call.op = "add_modules"
    /\ call.exc = "ValueError_already_exists"
    /\ \E i \in 1..Len(call.batch) :
          /\ call.modules_before[call.batch[i][1]] # None
          /\ call.modules_before[call.batch[i][1]] # call.batch[i][2]
          /\ modules[call.batch[i][1]] = call.modules_before[call.batch[i][1]]

\* C6: call_module for a type the registry does not hold raises the not-found
\* error, runs no module operation, and leaves the caller's sequence, the
\* registry and the per-thread timing state as they were.
C6_ModuleNotFound ==
    (call.op = "call_module" /\ call.modules_before[call.module_type] = None) =>
        /\ call.exc = "ValueError_not_found"
        /\ ~call.module_ran
        /\ call.input_ref = None
        /\ data = call.data_before
        /\ modules = call.modules_before
        /\ thread_last_perf_counter = call.tl_before

C6_Witness ==
    /\ call.op = "call_module"
    /\ call.exc = "ValueError_not_found"
    /\ call.data_before # <<>>
    /\ \E mt \in ModuleTypes : modules[mt] # None
    /\ \E t \in Threads : thread_last_perf_counter[t] # NoTime

\* C7: when the module returns a single record, call_module returns the
\* caller's sequence with that record appended and the earlier records as
\* they were.
C7_SingleRecordAppended ==
    (CallRan /\ call.result.type = "AkariDataSet") =>
        /\ call.ret_ref = "data"
        /\ AppendedToCaller

\* C8: when the module returns a sequence, call_module returns that sequence
\* and the caller's sequence is as it was.
C8_SequenceReplaces ==
    (CallRan /\ call.result.type = "AkariData") =>
        /\ call.exc = None
        /\ call.ret_ref = (IF call.result.ref = "input" THEN call.input_ref ELSE "new")
        /\ data = call.data_before

\* C9: when the module returns neither a record nor a sequence, call_module
\* raises the invalid-result error, nothing is appended to the caller's
\* sequence and set_module is called on nothing.
C9_InvalidResultType ==
    (CallRan /\ call.result.type = "other") =>
        /\ call.exc = "ValueError_invalid_result"
        /\ data = call.data_before
        /\ call.set_module_on = "n/a"
        /\ call.ret_ref = None

C9_Witness ==
    /\ CallRan
    /\ call.exc = "ValueError_invalid_result"
    /\ call.data_before # <<>>
    /\ call.input_after # call.data_before

\* C10: the router calls set_module only on a record that carries no
\* provenance: a returned record, or the last record of a returned sequence,
\* that carries provenance is handed on as it is.
C10_ProvenanceOnce ==
    /\ (CallRan /\ call.result.type = "AkariDataSet"
            /\ call.result.rec.module # NoModule) =>
          /\ call.set_module_on = "n/a"
          /\ last(data) = call.result.rec
    /\ (CallRan /\ call.result.type = "AkariData" /\ call.result.ref = "input"
            /\ call.input_after # <<>>
            /\ last(call.input_after).module # NoModule) =>
          /\ call.set_module_on = "n/a"
          /\ call.ret_ref = call.input_ref

\* C36: when the module operation raises, call_module passes the error on and
\* has done nothing: the caller's sequence is as it was (nothing appended, no
\* provenance attached) and the thread's last-streaming-end is neither created
\* nor changed, so that a thread whose first streaming call failed makes its
\* first streaming call again next time.
C36_ModuleErrorHasNoEffect ==
    (call.op = "call_module" /\ call.exc = "ModuleError") =>
        /\ call.module_ran
        /\ data = call.data_before
        /\ thread_last_perf_counter = call.tl_before
        /\ modules = call.modules_before
        /\ call.ret_ref = None

\* the first streaming call of a thread failed in the module operation
C36_Witness ==
    /\ call.op = "call_module"
    /\ call.exc = "ModuleError"
    /\ call.streaming
    /\ call.first
    /\ call.data_before # <<>>
    /\ thread_last_perf_counter[call.thread] = NoTime

LogErrors == {"IndexError_no_datasets", "AttributeError_end_time"}

\* C38: the logging options only observe: a call_module whose module has run
\* returns the same sequence or raises the same error with duration logging as
\* without it, also when the module returns an empty sequence; no call fails
\* in the log.
C38_OptionsOnlyObserve ==
    CallRan => call.exc \notin LogErrors

\* the entries of the batch whose module type was registered before the call
Duplicates == {i \in DOMAIN call.batch : call.modules_before[call.batch[i][1]] # None}

\* C39: add_modules registers the entries of its batch one by one, in order,
\* and stops at the first module type that is already registered: the entries
\* before it stay registered after the error, the type already registered
\* keeps its instance, and the entries after it are not registered.
C39_BatchStopsAtDuplicate ==
    call.op = "add_modules" =>
        IF Duplicates = {}
        THEN /\ call.exc = None
             /\ \A i \in DOMAIN call.batch : modules[call.batch[i][1]] = call.batch[i][2]
        ELSE LET k == CHOOSE i \in Duplicates : \A j \in Duplicates : i <= j
             IN  /\ call.exc = "ValueError_already_exists"
                 /\ \A i \in DOMAIN call.batch :
                       modules[call.batch[i][1]] =
                           IF i < k THEN call.batch[i][2]
                           ELSE call.modules_before[call.batch[i][1]]

\* the first entry of a batch of two was registered, the second was refused
C39_Witness ==
    /\ call.op = "add_modules"
    /\ Len(call.batch) = 2
    /\ Duplicates = {2}
    /\ call.exc = "ValueError_already_exists"
    /\ modules[call.batch[1][1]] = call.batch[1][2]
    /\ modules[call.batch[2][1]] # call.batch[2][2]

\* a streaming call whose module operation made a streaming call on the same
\* thread is over, and the module of the inner call was run
NestedOver ==
    /\ outer = NoOuter
    /\ call.op = "call_module"
    /\ call.inner.ran
    /\ call.inner.end_time # NoTime

\* C35: both calls of a nested pair of streaming calls decide their start time
\* from the last-streaming-end the thread had before the outer call began (the
\* end time of the inner call does not reach the start time of the outer one),
\* and after the outer call the thread's last-streaming-end is the end time of
\* the outer call.
C35_NestedStreaming ==
    NestedOver =>
        LET before == call.tl_before[call.thread]
        IN  /\ call.inner.prev_end = before
            /\ call.inner.start_time =
                  IF before = NoTime THEN call.inner.end_time ELSE before
            /\ call.end_time # NoTime =>
                  /\ call.start_time = IF before = NoTime THEN call.end_time ELSE before
                  /\ thread_last_perf_counter[call.thread] = call.end_time

\* the thread had made a streaming call before; the outer call returned after
\* the inner one, and starts where that earlier call ended
C35_Witness ==
    /\ NestedOver
    /\ call.exc = None
    /\ call.tl_before[call.thread] # NoTime
    /\ call.start_time = call.tl_before[call.thread]
    /\ call.tl_before[call.thread] < call.inner.end_time
    /\ call.inner.end_time < call.end_time

\* ---- src/modules/webrtcvad/vad.py: stream_call ----------------------------
\* One module instance; its stream_calls come one after the other.

\* data.last().audio is None
NoAudio == 0 - 1

FrameSizeInSamples(sample_rate, frame_duration_ms) ==
    (sample_rate * frame_duration_ms) \div 1000

\* int(params.sample_rate * params.frame_duration_ms / 1000 * 2)
frame_size_bytes(sample_rate, frame_duration_ms) ==
    (sample_rate * frame_duration_ms * 2) \div 1000

WithinSleepInclusive(now, last_speech, speech_sleep_duration_ms) ==
    now - last_speech <= speech_sleep_duration_ms

\* time.time() - self._last_speech_time < params.speech_sleep_duration_ms / 1000
within_sleep(now, last_speech, speech_sleep_duration_ms) ==
    now - last_speech < speech_sleep_duration_ms

\* the frame check passed; vad_is_speech is what self._vad.is_speech returned
classify(c, vad_is_speech) ==
    LET last1 == IF vad_is_speech THEN vad_clock ELSE last_speech_time
        cb1 == IF vad_is_speech THEN FALSE ELSE callbacked
        buf1 == IF vad_is_speech /\ c.stream_last # NoChunk
                THEN Append(audio_buffer, c.stream_last)
                ELSE audio_buffer
        is_speech == \/ vad_is_speech
                     \/ within_sleep(vad_clock, last_speech_time,
                                     c.speech_sleep_duration_ms)
        due == /\ c.callback # None
               /\ \/ ~c.callback_when_speech_ended /\ is_speech
                  \/ c.callback_when_speech_ended /\ ~is_speech /\ ~cb1
        \* self._router.callModule(callback, data, ...): data's last record
        \* carries the buffer as it was before this frame
        fired == due /\ "callModule" \in RouterMethods
    IN  /\ vad_is_speech /\ c.stream_last # NoChunk => Len(audio_buffer) < MaxBuffer
        /\ last_speech_time' = last1
        /\ callbacked' = IF fired THEN TRUE ELSE cb1
        /\ audio_buffer' = IF fired THEN <<>> ELSE buf1
        /\ vad' = [c EXCEPT !.vad_is_speech = vad_is_speech,
                            !.is_speech = is_speech,
                            !.due = due,
                            !.fired = fired,
                            !.delivered = IF fired THEN audio_buffer ELSE <<>>,
                            !.exc = IF due /\ ~fired
                                    THEN "AttributeError_callModule" ELSE None]

vad_stream_call(sample_rate, frame_duration_ms, speech_sleep_duration_ms, callback_when_speech_ended, callback, main_len, stream_last) ==
    LET c == [NoVadCall EXCEPT
                !.op = "stream_call", !.sample_rate = sample_rate,
                !.frame_duration_ms = frame_duration_ms,
                !.speech_sleep_duration_ms = speech_sleep_duration_ms,
                !.callback_when_speech_ended = callback_when_speech_ended,
                !.callback = callback, !.main_len = main_len,
                !.stream_last = stream_last, !.now = vad_clock,
                !.last_speech_time_before = last_speech_time,
                !.callbacked_before = callbacked,
                !.audio_buffer_before = audio_buffer]
    IN  /\ IF main_len = NoAudio
           THEN /\ vad' = [c EXCEPT !.exc = "ValueError_missing"]
                /\ UNCHANGED <<last_speech_time, callbacked, audio_buffer>>
           ELSE IF main_len < frame_size_bytes(sample_rate, frame_duration_ms)
           THEN /\ vad' = [c EXCEPT !.exc = "ValueError_too_short"]
                /\ UNCHANGED <<last_speech_time, callbacked, audio_buffer>>
           ELSE \E vad_is_speech \in BOOLEAN : classify(c, vad_is_speech)
        /\ UNCHANGED vad_clock
        /\ UNCHANGED <<router_vars, stt_vars, mic_vars, serial_vars, tts_vars>>

\* time passes between two frames
vad_tick ==
    /\ vad_clock < Boot + MaxVadTicks * TimeStep
    /\ vad_clock' = vad_clock + TimeStep
    /\ UNCHANGED <<last_speech_time, callbacked, audio_buffer, vad>>
    /\ UNCHANGED <<router_vars, stt_vars, mic_vars, serial_vars, tts_vars>>

\* the params object of the pipeline: the caller passes the same one each time
VadParams ==
    [sample_rate : SampleRates, frame_duration_ms : FrameDurations,
     speech_sleep_duration_ms : SleepDurations,
     callback_when_speech_ended : BOOLEAN, callback : Callbacks \cup {None}]

VadStreamCall ==
    \E params \in IF vad.op = "none"
                  THEN VadParams
                  ELSE {[sample_rate |-> vad.sample_rate,
                         frame_duration_ms |-> vad.frame_duration_ms,
                         speech_sleep_duration_ms |-> vad.speech_sleep_duration_ms,
                         callback_when_speech_ended |-> vad.callback_when_speech_ended,
                         callback |-> vad.callback]},
       main_len \in MainLengths \cup {NoAudio}, stream_last \in Chunks \cup {NoChunk} :
        vad_stream_call(params.sample_rate, params.frame_duration_ms,
                        params.speech_sleep_duration_ms,
                        params.callback_when_speech_ended, params.callback,
                        main_len, stream_last)

InitVAD == Init /\ options_duration = TRUE

NextVAD == VadStreamCall \/ vad_tick

SpecVAD == InitVAD /\ [][NextVAD]_vars

\* ---- src/modules/audio/mic.py: call -------------------------------------
\* The capture loop of one call(); time is counted in units of 100 ms and a
\* chunk is known by the number of reads it holds.

StreamDurations == {1, 2}
Destructions == {1, 2, 3, 4}
\* the time one streamer.read takes
ReadTimes == {1, 2}

MicParams ==
    [stream_duration_milliseconds : StreamDurations,
     destruction_milliseconds : Destructions,
     callback_when_thread_is_alive : BOOLEAN]

\* the numbers of the chunks of a list whose last chunk is the one numbered newest
numbered(chunks, newest) == [i \in 1 .. Len(chunks) |-> newest - Len(chunks) + i]

\* the numbers of the chunks in the list frames
retained_chunks == numbered(frames, mic_log.produced)

\* b"".join(frames) for the chunks numbered from first on
RECURSIVE join(_, _)
join(chunks, first) ==
    IF chunks = <<>> THEN <<>>
    ELSE [i \in 1 .. Head(chunks) |-> first] \o join(Tail(chunks), first + 1)

\* what a record holds when it is read: its stream log is the list it wraps
contents(r) == IF r.live THEN [r EXCEPT !.live = FALSE, !.stream = retained_chunks] ELSE r

\* frames is bound to another list: a record built before keeps the old list
freeze(r) == contents(r)

\* a thread that has not read current_call_data when call() is left finds
\* the last record of that call there
leave(t, r) ==
    IF t.called THEN [t EXCEPT !.data = freeze(@)]
    ELSE [t EXCEPT !.called = TRUE, !.data = freeze(r)]

rebind(threads) ==
    [alive |-> threads.alive,
     newest |-> [threads.newest EXCEPT !.data = freeze(@)],
     older |-> [i \in DOMAIN threads.older |->
                  [threads.older[i] EXCEPT !.data = freeze(@)]]]

left(threads, r) ==
    [alive |-> threads.alive,
     newest |-> IF threads.alive THEN leave(threads.newest, r) ELSE threads.newest,
     older |-> [i \in DOMAIN threads.older |-> leave(threads.older[i], r)]]

\* call() up to the loop: the locals are set and the stream is started
mic_call(params, callback) ==
    /\ mic.pc = "idle"
    /\ frames' = <<>>
    /\ frame' = 0
    /\ frame_time' = mic_clock
    /\ mic' = [NoMicCall EXCEPT
                 !.pc = "read",
                 !.stream_duration_milliseconds = params.stream_duration_milliseconds,
                 !.destruction_milliseconds = params.destruction_milliseconds,
                 !.callback = callback,
                 !.callback_when_thread_is_alive = params.callback_when_thread_is_alive]
    /\ mic_thread' = mic_thread
    /\ mic_log' = [mic_log EXCEPT
                     !.default_only = @ /\ ~params.callback_when_thread_is_alive]
    /\ UNCHANGED mic_clock
    /\ UNCHANGED <<router_vars, stt_vars, vad_vars, serial_vars, tts_vars>>

\* data_chunk = streamer.read(...); frame += data_chunk; current_time = time.time()
mic_read(dt) ==
    /\ mic.pc = "read"
    /\ mic_clock + dt <= MaxMicClock
    /\ frame' = frame + 1
    /\ mic_clock' = mic_clock + dt
    /\ mic' = [mic EXCEPT !.pc = "check"]
    /\ UNCHANGED <<frames, frame_time, mic_thread, mic_log>>
    /\ UNCHANGED <<router_vars, stt_vars, vad_vars, serial_vars, tts_vars>>

DispatchOnlyWhenIdle ==
    IF /\ mic.callback # None
       /\ ~mic_thread.alive
    THEN [alive |-> TRUE, newest |-> NoMicThread, older |-> mic_thread.older]
    ELSE mic_thread

DispatchAlways ==
    IF mic.callback # None
    THEN [alive |-> TRUE, newest |-> NoMicThread,
          older |-> IF mic_thread.alive
                    THEN Append(mic_thread.older, mic_thread.newest)
                    ELSE mic_thread.older]
    ELSE mic_thread

\* the dispatch of the closed chunk: a thread that calls the router is started
\* unless self._thread is alive and callback_when_thread_is_alive is not set
dispatch ==
    IF /\ mic.callback # None
       /\ ~mic_thread.alive \/ mic.callback_when_thread_is_alive
    THEN [alive |-> TRUE, newest |-> NoMicThread,
          older |-> IF mic_thread.alive
                    THEN Append(mic_thread.older, mic_thread.newest)
                    ELSE mic_thread.older]
    ELSE mic_thread

\* the record of a boundary before the append: frames.append(frame) comes later
BuiltBeforeAppend(chunks, newest) ==
    [id |-> newest,
     main |-> join(SubSeq(chunks, 1, Len(chunks) - 1), newest - Len(chunks) + 1),
     live |-> TRUE, stream |-> <<>>]

\* dataset.audio = AkariDataSetType(main=b"".join(frames),
\* stream=AkariDataStreamType(frames)); current_call_data.add(dataset)
build(chunks, newest) ==
    [id |-> newest, main |-> join(chunks, newest - Len(chunks) + 1),
     live |-> TRUE, stream |-> <<>>]

\* the thread started at a boundary, if one was started there
started(threads, chunk) ==
    IF threads # mic_thread THEN [threads EXCEPT !.newest.born = chunk] ELSE threads

\* the chunk is closed once stream_duration_milliseconds have passed since the
\* last boundary: it joins the retained chunks, the record of the boundary is
\* built and bound to current_call_data, and the chunk is dispatched
mic_close_chunk ==
    /\ mic.pc = "check"
    /\ IF mic_clock - frame_time >= mic.stream_duration_milliseconds
       THEN /\ Len(dispatch.older) <= MaxThreads
            /\ frames' = Append(frames, frame)
            /\ mic_log' = [mic_log EXCEPT !.produced = @ + 1]
            /\ mic_thread' = started(dispatch, mic_log'.produced)
            /\ frame_time' = mic_clock
            /\ frame' = 0
            /\ mic' = [mic EXCEPT
                         !.pc = "trim", !.closed = mic.closed + 1,
                         !.boundary = IF dispatch # mic_thread THEN "started"
                                                               ELSE "skipped",
                         !.alive_at_boundary = mic_thread.alive,
                         !.current_call_data = build(frames', mic_log'.produced)]
       ELSE /\ mic' = [mic EXCEPT !.pc = "trim"]
            /\ UNCHANGED <<frames, mic_thread, mic_log, frame_time, frame>>
    /\ UNCHANGED mic_clock
    /\ UNCHANGED <<router_vars, stt_vars, vad_vars, serial_vars, tts_vars>>

TrimDueStrict(retained, destruction_milliseconds, stream_duration_milliseconds) ==
    retained * stream_duration_milliseconds > destruction_milliseconds

\* len(frames) >= params.destruction_milliseconds / params.stream_duration_milliseconds
trim_due(retained, destruction_milliseconds, stream_duration_milliseconds) ==
    retained * stream_duration_milliseconds >= destruction_milliseconds

\* the end of a turn of the loop: the oldest retained chunk is dropped;
\* frames = frames[1:] binds the name to a new list
mic_trim ==
    /\ mic.pc = "trim"
    /\ IF trim_due(Len(frames), mic.destruction_milliseconds,
                   mic.stream_duration_milliseconds)
       THEN /\ frames' = Tail(frames)
            /\ mic_thread' = rebind(mic_thread)
            /\ mic' = [mic EXCEPT !.pc = "read", !.current_call_data = freeze(@)]
       ELSE /\ mic' = [mic EXCEPT !.pc = "read"]
            /\ UNCHANGED <<frames, mic_thread>>
    /\ UNCHANGED <<frame, frame_time, mic_clock, mic_log>>
    /\ UNCHANGED <<router_vars, stt_vars, vad_vars, serial_vars, tts_vars>>

\* the log of the chunks handed to the callback keeps the last two of them
handed_over(delivered, chunk) ==
    IF Len(delivered) < 2 THEN Append(delivered, chunk) ELSE <<delivered[2], chunk>>

\* stream.last() of a record
newest_entry(r) == r.stream[Len(r.stream)]

\* a dispatch thread enters call_module_in_thread and reads current_call_data
\* for the argument of router.call_module
mic_thread_calls ==
    /\ mic.pc # "idle"
    /\ \/ /\ mic_thread.alive
          /\ ~mic_thread.newest.called
          /\ mic_thread' = [mic_thread EXCEPT
                              !.newest.called = TRUE,
                              !.newest.data = mic.current_call_data]
       \/ \E i \in DOMAIN mic_thread.older :
            /\ ~mic_thread.older[i].called
            /\ mic_thread' = [mic_thread EXCEPT
                                !.older[i].called = TRUE,
                                !.older[i].data = mic.current_call_data]
    /\ UNCHANGED <<frames, frame, frame_time, mic_clock, mic_log, mic>>
    /\ UNCHANGED <<router_vars, stt_vars, vad_vars, serial_vars, tts_vars>>

\* the log of a hand-over: the copy the router made and the boundary that
\* started the thread
hand(t) ==
    [mic_log EXCEPT
       !.delivered = handed_over(@, newest_entry(contents(t.data))),
       !.given = contents(t.data),
       !.born = t.born]

\* a dispatch thread runs router.call_module(streaming=True): the router
\* copies the record and hands the copy to stream_call of the callback module
mic_thread_hands ==
    /\ \/ /\ mic_thread.alive
          /\ mic_thread.newest.called
          /\ ~mic_thread.newest.handed
          /\ mic_log' = hand(mic_thread.newest)
          /\ mic_thread' = [mic_thread EXCEPT
                              !.newest = [NoMicThread EXCEPT !.called = TRUE,
                                                             !.handed = TRUE]]
       \/ \E i \in DOMAIN mic_thread.older :
            /\ mic_thread.older[i].called
            /\ ~mic_thread.older[i].handed
            /\ mic_log' = hand(mic_thread.older[i])
            /\ mic_thread' = [mic_thread EXCEPT
                                !.older[i] = [NoMicThread EXCEPT !.called = TRUE,
                                                                 !.handed = TRUE]]
    /\ UNCHANGED <<frames, frame, frame_time, mic_clock, mic>>
    /\ UNCHANGED <<router_vars, stt_vars, vad_vars, serial_vars, tts_vars>>

\* a dispatch thread ends (after the callback, or on an error of the router
\* before it): the newest one, or one started before it
mic_thread_ends ==
    /\ \/ /\ mic_thread.alive
          /\ mic_thread' = [mic_thread EXCEPT !.alive = FALSE, !.newest = NoMicThread]
       \/ \E i \in DOMAIN mic_thread.older :
            mic_thread' = [mic_thread EXCEPT
                             !.older = SubSeq(@, 1, i - 1) \o SubSeq(@, i + 1, Len(@))]
    /\ UNCHANGED <<frames, frame, frame_time, mic_clock, mic_log, mic>>
    /\ UNCHANGED <<router_vars, stt_vars, vad_vars, serial_vars, tts_vars>>

\* the loop is interrupted or a read fails: finally releases the stream and
\* call() is left
mic_interrupt ==
    /\ mic.pc # "idle"
    /\ mic' = [mic EXCEPT !.pc = "idle", !.closed = 0, !.boundary = "none",
                          !.alive_at_boundary = FALSE,
                          !.current_call_data = NoMicRecord]
    /\ frames' = <<>>
    /\ frame' = 0
    /\ frame_time' = 0
    /\ mic_thread' = left(rebind(mic_thread), mic.current_call_data)
    /\ UNCHANGED <<mic_clock, mic_log>>
    /\ UNCHANGED <<router_vars, stt_vars, vad_vars, serial_vars, tts_vars>>

\* the caller passes the same params and callback on every call()
MicCall ==
    \E params \in MicParams, callback \in Callbacks \cup {None} :
        /\ mic.stream_duration_milliseconds # 0 =>
             /\ params.stream_duration_milliseconds = mic.stream_duration_milliseconds
             /\ params.destruction_milliseconds = mic.destruction_milliseconds
             /\ params.callback_when_thread_is_alive = mic.callback_when_thread_is_alive
             /\ callback = mic.callback
        /\ mic_call(params, callback)

MicRead == \E dt \in ReadTimes : mic_read(dt)

InitMic == Init /\ options_duration = TRUE

NextMic ==
    \/ MicCall
    \/ MicRead
    \/ mic_close_chunk
    \/ mic_trim
    \/ mic_thread_calls
    \/ mic_thread_hands
    \/ mic_thread_ends
    \/ mic_interrupt

SpecMic == InitMic /\ [][NextMic]_vars

\* ---- properties of the speech-to-text session ------------------------------

\* C11: at most one session is active per module instance: whatever
\* stream_calls, stops (a stop whose join timed out too) and worker
\* terminations came before, at most one processing thread is alive and
\* takes items from the audio queue.
C11_SingleSession ==
    Cardinality({w \in Workers : IsAlive(w) /\ Consuming(w)}) <= 1

\* C12: the session leaves idle only in a stream_call that delivers an audio
\* chunk, and leaves active only by an explicit end of stream or when its own
\* worker terminates; a stream_call without end_stream_flag on an active
\* session starts no worker; when a stream_call with end_stream_flag on an
\* active session returns, the session is not active.
C12_SessionTransitions ==
    [][/\ (~is_streaming_active /\ is_streaming_active') =>
            /\ stt'.op = "stream_call"
            /\ ~stt'.end_stream_flag
            /\ stt'.audio_chunk # NoChunk
       /\ (is_streaming_active /\ ~is_streaming_active') =>
            \/ stt.pc = "idle" /\ stt'.op = "stream_call" /\ stt'.end_stream_flag
            \/ stt.pc = "idle" /\ stt'.op = "close"
            \/ /\ IsAlive(processing_thread)
               /\ worker'[processing_thread].pc = "dead"
       /\ (/\ stt.pc = "idle" /\ stt'.op = "stream_call"
           /\ ~stt'.end_stream_flag /\ is_streaming_active) => worker' = worker
       /\ (/\ stt.pc # "returned" /\ stt'.pc = "returned"
           /\ stt'.op = "stream_call" /\ stt'.end_stream_flag
           /\ stt'.active_before) => ~is_streaming_active'
      ]_vars

\* a stream_call with end_stream_flag on the idle module has returned
IdleStopReturned ==
    /\ stt.pc = "returned"
    /\ stt.op = "stream_call"
    /\ stt.end_stream_flag
    /\ ~stt.active_before

\* ... and it changed nothing and raised nothing
IdleStopIsNoOp ==
    /\ ~is_streaming_active
    /\ {w \in Workers : IsAlive(w)} = stt.alive_before
    /\ stt.started = NoThread
    /\ processing_thread = stt.thread_before
    /\ audio_queue = stt.queue_before
    /\ stt.exc = None

\* C13 as stated: a stream_call with end_stream_flag on an idle module is a
\* no-op (not active after it, no worker started, queue unchanged) and returns
\* an empty sequence, without error.
C13_IdleStopReturnsEmptySequence ==
    IdleStopReturned =>
        /\ IdleStopIsNoOp
        /\ stt.result.type = "AkariData"
        /\ stt.result.stream = <<>>

\* C13 amended: a stream_call with end_stream_flag on an idle module is a
\* no-op (not active after it, no worker started, queue unchanged) and returns
\* an empty record, one with no field set, without error; this holds for every
\* such call, so for any number of them in a row.
C13_IdleStopIsNoOp ==
    IdleStopReturned =>
        /\ IdleStopIsNoOp
        /\ stt.result = EmptyDataSet

\* a second stop in a row on the idle module, with an item still queued
C13_Witness ==
    /\ IdleStopReturned
    /\ stt.result = EmptyDataSet
    /\ audio_queue # <<>>
    /\ stt.queue_before = audio_queue

\* worker w left its loop through except Exception
Failed(w) == worker[w].exc

\* a stream_call without end_stream_flag has released _lock, on a module that
\* was idle and one of whose workers had ended by an exception
CallAfterFailure ==
    /\ stt.pc = "tail"
    /\ stt.op = "stream_call"
    /\ ~stt.end_stream_flag
    /\ ~stt.active_before
    /\ \E w \in Workers : Failed(w) /\ worker[w].pc = "dead"

\* the call started a thread that did not exist before, which is the
\* session's worker now, and the queue holds the chunk of the call alone
FreshSession ==
    /\ stt.started \in Workers
    /\ stt.started \notin stt.alive_before
    /\ processing_thread = stt.started
    /\ Consuming(stt.started)
    /\ is_streaming_active
    /\ stt.audio_chunk # NoChunk => audio_queue = <<stt.audio_chunk>>
    /\ stt.exc = None

\* C14: a worker that ends by an exception ends: its finally block runs, the
\* session is not active after it, and no call of the caller raises; the next
\* stream_call without end_stream_flag on the idle module starts a fresh
\* session, enqueues its chunk and returns a record.
C14_SilentSessionReplacement ==
    /\ [](stt.exc = None)
    /\ [][(stt.pc = "idle" /\ CallAfterFailure') => FreshSession']_vars
    /\ []((stt.pc = "returned" /\ stt.op = "stream_call") =>
            stt.result.type = "AkariDataSet")
    /\ [][\A w \in Workers :
            (Failed(w) /\ worker[w].pc = "cleanup" /\ worker'[w].pc = "dead")
                => ~is_streaming_active']_vars
    \* cleanup is left for dead only: no failed worker stays in its cleanup
    /\ []<>(\A w \in Workers : ~(Failed(w) /\ worker[w].pc = "cleanup"))

\* a worker failed and ended, leaving its sentinel in the queue; the next
\* stream_call started a new worker and the queue holds its chunk
C14_Witness ==
    /\ CallAfterFailure
    /\ FreshSession
    /\ stt.audio_chunk # NoChunk
    /\ stt.queue_before # <<>>

IsChunk(item) == item # None

\* the audio chunks waiting in the queue
ChunksWaiting == Len(SelectSeq(audio_queue, IsChunk))

\* C23: the audio-chunk queue is bounded: the number of chunks waiting never
\* exceeds the capacity the queue was created with, however much faster
\* stream_call pushes than the worker consumes.
C23_QueueBounded == ChunksWaiting <= maxsize

\* C24: the queue is first-in-first-out within one session: the session's
\* worker is fed the chunks pushed in that session, in the order pushed and
\* each at most once, and none pushed after the session's stop sentinel.
\* A start empties the queue, so every chunk in it was pushed in the session
\* started last: a worker that is fed a chunk must be that session's worker.
C24_QueueFifo ==
    /\ [](worker_log.event = "fed" => worker_log.w = worker_log.owner)
    /\ [][\A w \in Workers :
            (worker_log'.event = "fed" /\ worker_log'.w = w) =>
                /\ Consuming(w)
                /\ audio_queue # <<>>
                /\ IsChunk(Head(audio_queue))
                /\ audio_queue' = Tail(audio_queue)]_vars

\* C28: the delta buffer is cleared only by a stream_call whose returned
\* record carries finality = true, and every transcript in the buffer when it
\* is cleared is in that record's incremental log, whatever the worker does
\* in between.
C28_ClearedOnlyWhenSurfaced ==
    [][(result_delta # <<>> /\ result_delta' = <<>>) =>
            /\ stt'.pc = "returned"
            /\ stt'.op = "stream_call"
            /\ stt'.result.bool = "True"
            /\ stt'.result.stream = result_delta]_vars

\* a processing thread runs its finally block
FinallyStep == \E w \in Workers : worker[w].pc = "cleanup" /\ worker'[w].pc = "dead"

\* C29: the state that more than one thread mutates is changed only while
\* _lock is held: the active flag, the worker handle and the queue contents
\* as written by stream_call, start, stop, close() and the worker's cleanup;
\* and no other field is written by both the worker and the caller (the
\* transcripts and the finality flag are, so they fall under the same rule).
C29_LockDiscipline ==
    [][/\ (/\ stt' # stt
           /\ \/ is_streaming_active' # is_streaming_active
              \/ processing_thread' # processing_thread
              \/ audio_queue' # audio_queue
              \/ result_delta' # result_delta
              \/ result_final' # result_final) => stt'.held
       /\ (/\ stt' = stt
           /\ \/ is_streaming_active' # is_streaming_active
              \/ result_delta' # result_delta
              \/ result_final' # result_final) => FinallyStep]_vars

\* C30: an error raised by the downstream callback while the worker hands
\* over a transcript is caught and logged in the worker: the worker stays in
\* its response loop and the session's active flag is not touched.
C30_CallbackErrorCaught ==
    [][\A w \in Workers :
        (worker_log'.event = "callback_error" /\ worker_log'.w = w) =>
            /\ worker[w].pc \in {"streaming", "closing"}
            /\ worker'[w].pc = worker[w].pc
            /\ is_streaming_active' = is_streaming_active
            /\ stt' = stt]_vars

\* the callback of a transcript has just raised in the worker of an active
\* session, and the worker is in its loop
C30_Witness ==
    /\ worker_log.event = "callback_error"
    /\ worker_log.w = processing_thread
    /\ worker[worker_log.w].pc = "streaming"
    /\ is_streaming_active
    /\ result_delta # <<>>

\* the worker of an earlier session runs its finally block
StaleCleanup(w) ==
    /\ w < NextThread - 1
    /\ worker[w].pc = "cleanup"
    /\ worker'[w].pc = "dead"

\* C33: the active flag of a session falls only through an end_stream_flag
\* call (or close) or the end of that session's own worker: the cleanup of the
\* worker of an earlier session, still running after a timed-out join, neither
\* clears the flag of a session started after it nor pushes a sentinel into
\* its queue.
C33_CleanupIsOfOwnSession ==
    [][\A w \in Workers :
         StaleCleanup(w) =>
            /\ is_streaming_active' = is_streaming_active
            /\ audio_queue' = audio_queue]_vars

\* a stream_call with end_stream_flag has stopped an active session and waited
\* for its worker, which has read the sentinel and left its loops
StoppedPromptWorker ==
    /\ stt.pc = "returned"
    /\ stt.op = "stream_call"
    /\ stt.end_stream_flag
    /\ stt.active_before
    /\ stt.join # "n/a"
    /\ worker[stt.thread_before].pc \in {"cleanup", "dead"}

\* C34: when end_stream_flag stops an active session whose worker leaves as
\* soon as it reads the sentinel, the worker finishes within the stop call:
\* the join succeeds before its timeout.
C34_JoinSucceeds == StoppedPromptWorker => stt.join = "joined"

\* ---- properties of the voice activity detection ---------------------------

\* the last stream_call got past the frame check: its frame was classified
VadClassified ==
    /\ vad.op = "stream_call"
    /\ vad.exc \notin {"ValueError_missing", "ValueError_too_short"}

\* the speech audio in the buffer once the frame of the last call is in it
Accumulated ==
    IF vad.vad_is_speech /\ vad.stream_last # NoChunk
    THEN Append(vad.audio_buffer_before, vad.stream_last)
    ELSE vad.audio_buffer_before

\* C15: with callback_when_speech_ended and a callback, the callback fires
\* once per speech segment: a call fires it exactly when its frame is
\* functionally not speech and the segment is not yet notified, and the
\* segment is notified after it, so no later frame of the pause fires again.
C15_OneCallbackPerSegment ==
    (VadClassified /\ vad.callback # None /\ vad.callback_when_speech_ended) =>
        /\ vad.fired = (~vad.is_speech /\ ~vad.callbacked_before)
        /\ vad.fired => callbacked
        /\ vad.exc = None

\* C16: a frame classified as not speech is functionally speech exactly when
\* strictly less than speech_sleep_duration_ms have passed since the last
\* frame classified as speech.
C16_Hysteresis ==
    (VadClassified /\ ~vad.vad_is_speech) =>
        vad.is_speech =
            (vad.now - vad.last_speech_time_before < vad.speech_sleep_duration_ms)

\* speech, then a frame that is not speech 50 ms later with a sleep of 100 ms
C16_Witness ==
    /\ VadClassified
    /\ ~vad.vad_is_speech
    /\ vad.is_speech
    /\ vad.speech_sleep_duration_ms = 2 * TimeStep
    /\ vad.last_speech_time_before # Epoch
    /\ vad.now - vad.last_speech_time_before = TimeStep

\* C17: without callback_when_speech_ended and with a callback, the callback
\* fires in exactly the stream_calls whose frame is functionally speech.
C17_CallbackOnEverySpeechFrame ==
    (VadClassified /\ vad.callback # None /\ ~vad.callback_when_speech_ended) =>
        /\ vad.fired = vad.is_speech
        /\ vad.exc = None

\* C18: when the callback is due it fires with the speech audio accumulated
\* since the last firing, and after it the buffer is empty and the segment
\* notified; a call that does not fire keeps the accumulated audio.
C18_CallbackCarriesBuffer ==
    /\ (VadClassified /\ vad.due) =>
            /\ vad.fired
            /\ vad.delivered = Accumulated
            /\ audio_buffer = <<>>
            /\ callbacked
    /\ (VadClassified /\ ~vad.fired) => audio_buffer = Accumulated

\* C19: stream_call fails with the short-frame error exactly when the audio
\* has fewer bytes than one frame of sample_rate * frame_duration_ms / 1000
\* samples of 2 bytes; the failed call fires no callback and leaves the time
\* of the last speech, the notified flag and the buffer as they were.
C19_ShortFrame ==
    (vad.op = "stream_call" /\ vad.main_len # NoAudio) =>
        /\ (vad.exc = "ValueError_too_short") =
              (vad.main_len < 2 * ((vad.sample_rate * vad.frame_duration_ms) \div 1000))
        /\ vad.exc = "ValueError_too_short" =>
              /\ ~vad.fired
              /\ last_speech_time = vad.last_speech_time_before
              /\ callbacked = vad.callbacked_before
              /\ audio_buffer = vad.audio_buffer_before

\* a frame one byte short arrives in the middle of a speech segment
C19_Witness ==
    /\ vad.op = "stream_call"
    /\ vad.exc = "ValueError_too_short"
    /\ vad.main_len = frame_size_bytes(vad.sample_rate, vad.frame_duration_ms) - 1
    /\ audio_buffer # <<>>
    /\ ~callbacked
    /\ last_speech_time # Epoch

\* C27: a stream_call whose frame is functionally speech (classified as
\* speech, or not speech within the sleep window) appends the bytes of the new
\* chunk to the buffer; one whose frame is functionally not speech appends
\* nothing. (A call that fires the callback empties the buffer afterwards.)
C27_BufferFollowsFunctionalSpeech ==
    (VadClassified /\ vad.stream_last # NoChunk /\ ~vad.fired) =>
        audio_buffer = IF vad.is_speech
                       THEN Append(vad.audio_buffer_before, vad.stream_last)
                       ELSE vad.audio_buffer_before

\* no frame has been classified as speech since the module was constructed:
\* _last_speech_time still holds the epoch
NoSpeechYet == last_speech_time = Epoch

\* C40: with callback_when_speech_ended = true a freshly constructed module
\* calls no callback before a frame has been classified as speech: a
\* stream_call of a prefix of non-speech frames does not reach the call of the
\* callback module.
C40_NoCallbackBeforeSpeech ==
    (vad.op = "stream_call" /\ vad.callback_when_speech_ended /\ NoSpeechYet) =>
        /\ ~vad.due
        /\ ~vad.fired
        /\ vad.exc # "AttributeError_callModule"

\* a non-speech frame was classified, later than the first reading of the
\* clock, with a callback module set, and no speech was seen so far
C40_Witness ==
    /\ VadClassified
    /\ vad.callback # None
    /\ vad.callback_when_speech_ended
    /\ NoSpeechYet
    /\ ~vad.vad_is_speech
    /\ ~vad.is_speech
    /\ vad.now > Boot

\* ---- properties of the microphone capture ---------------------------------

\* C20: with destruction_ms = k * stream_duration_ms and k >= 1, the capture
\* loop never retains more than k chunks, at any point of the loop and
\* however many chunks were closed.
C20_RetainedChunksBounded ==
    (/\ mic.pc # "idle"
     /\ mic.destruction_milliseconds % mic.stream_duration_milliseconds = 0) =>
        Len(frames) <= mic.destruction_milliseconds \div mic.stream_duration_milliseconds

\* k = 2: two chunks are retained right after the fourth was closed
C20_Witness ==
    /\ mic.pc = "trim"
    /\ mic.destruction_milliseconds = 2 * mic.stream_duration_milliseconds
    /\ Len(frames) = 2
    /\ mic.closed = 4

\* the dispatch threads alive
AliveDispatchThreads == (IF mic_thread.alive THEN 1 ELSE 0) + Len(mic_thread.older)

\* C21: with callback_when_thread_is_alive = false a dispatch thread is
\* started at a chunk boundary only if the previous one has finished, so at
\* most one dispatch thread is alive at any time; with
\* callback_when_thread_is_alive = true a dispatch thread is started at every
\* chunk boundary (of a call() that has a callback).
C21_DispatchPolicy ==
    /\ (mic.boundary # "none" /\ mic.callback # None) =>
          IF mic.callback_when_thread_is_alive
          THEN mic.boundary = "started"
          ELSE (mic.boundary = "started") <=> ~mic.alive_at_boundary
    /\ mic_log.default_only => AliveDispatchThreads <= 1

\* the default policy skips the dispatch of the third chunk: the thread of
\* an earlier chunk is still alive
C21_Witness ==
    /\ mic.callback # None
    /\ ~mic.callback_when_thread_is_alive
    /\ mic.closed = 3
    /\ mic.boundary = "skipped"
    /\ mic.alive_at_boundary
    /\ AliveDispatchThreads = 1

JustClosed == mic.pc = "trim" /\ frame = 0

\* the bytes of main that came with chunk k
BytesOf(main, k) == {i \in DOMAIN main : main[i] = k}

\* C31: the record built at a chunk boundary has as audio.main the
\* concatenation, in order, of all chunks retained at that moment, the chunk
\* just closed included, and the last entry of its stream log is the chunk
\* just closed.
C31_RecordAtBoundary ==
    JustClosed =>
        LET r == contents(mic.current_call_data)
        IN  /\ frames # <<>>
            /\ \A i \in DOMAIN r.main : \E j \in DOMAIN frames : r.main[i] = retained_chunks[j]
            /\ \A j \in DOMAIN frames :
                  Cardinality(BytesOf(r.main, retained_chunks[j])) = frames[j]
            /\ \A i \in 1 .. Len(r.main) - 1 : r.main[i] <= r.main[i + 1]
            /\ newest_entry(r) = mic_log.produced
            /\ retained_chunks[Len(frames)] = mic_log.produced

\* two chunks are retained at the second boundary: the first holds one read,
\* the second two
C31_Witness ==
    /\ JustClosed
    /\ frames = <<1, 2>>
    /\ mic.current_call_data.main = <<1, 2, 2>>

\* C32: a dispatch thread passes to the router the record built at the
\* boundary that started it, with the contents it had there (a stream log that
\* ends with the chunk closed at that boundary), also when the capture loop
\* has closed further chunks before the thread ran.
C32_ThreadPassesItsRecord ==
    mic_log.born # 0 =>
        /\ mic_log.given.id = mic_log.born
        /\ newest_entry(mic_log.given) = mic_log.born

\* ---- properties of the serial module and of the text-to-speech module ----

\* C25: the serial module with N listed modules, each returning a single
\* record, applied to a sequence of m records returns m + N records: the m
\* input records in order, then the N outputs in listed order; each listed
\* module is invoked once, non-streaming.
C25_SerialAppends ==
    serial.op = "call" =>
        LET m == Len(serial.data)
            N == Len(serial.modules)
        IN  /\ serial.exc = None
            /\ Len(serial.result) = m + N
            /\ SubSeq(serial.result, 1, m) = serial.data
            /\ \A i \in 1 .. N :
                    /\ serial.result[m + i].module.moduleType = serial.modules[i]
                    /\ ~serial.result[m + i].module.streaming
            /\ serial.invoked = serial.modules

\* the sequence holds no text to synthesize: no record at all, or a last
\* record without a text main
NoTextToSynthesize(datasets) == datasets = <<>> \/ ~has_input_text(last(datasets))

\* C26: a text-to-speech call with no text to synthesize returns one
\* error-carrying record whose text is 'Error: No text provided for
\* synthesis.', raises nothing and never invokes the vendor API.
C26_NoTextIsAnErrorRecord ==
    (tts.op = "call" /\ NoTextToSynthesize(tts.data)) =>
        /\ tts.exc = None
        /\ tts.result = TtsTextRecord("Error: No text provided for synthesis.")
        /\ ~tts.vendor_called

====
